---- MODULE Spec2Model ----
(***************************************************************************)
(* Key-exchange groups of rustls-liboqs: the KEM group (kem.rs) and the    *)
(* layout shim that reorders the classical and post-quantum segments       *)
(* (swap.rs), driven against an abstract engine and a wire-order peer.     *)
(***************************************************************************)
EXTENDS Integers, Sequences, FiniteSets, TLC

\* ------------------------------------------------------------------ bounds
\* Distinct key pairs the engine's keygen can return.
MaxKeys == 2
\* Distinct random coins the engine's encapsulation can draw.
MaxRand == 1
\* Responder-side calls (start_and_complete) each side makes in one run.
MaxCalls == 1
\* Length of the post-quantum public key segment (1184 in ML-KEM-768).
PqPkLen == 3
\* Length of the post-quantum ciphertext segment (1088 in ML-KEM-768).
PqCtLen == 2
\* Transform specification: longest arbitrary buffer, largest classical_len.
MaxBufLen == 5
MaxClassicalLen == 2
\* Transform specification: largest N of the synthetic key [1]*32 ++ [2]*N.
MaxN == 33

\* --------------------------------------------------------------- constants
\* swap.rs: ReversingKeyExchange { classical_len: 32 }
CLASSICAL_LEN == 32
\* Engine: length of an X25519 public key and of each half of the secret.
X25519_LEN == 32
SS_LEN == 32

Keys == 1..MaxKeys
Rands == 1..MaxRand
\* X25519 scalars: one per key pair, one per encapsulation coin.
Scalars == 1..(MaxKeys + MaxRand)
EphemeralScalar(r) == MaxKeys + r

\* ----------------------------------------------------------- byte helpers
Take(s, n) == SubSeq(s, 1, n)
Drop(s, n) == SubSeq(s, n + 1, Len(s))
Fill(b, n) == [i \in 1..n |-> b]
Zeros(n) == Fill(0, n)
\* n bytes start+1, start+2, ... : every position of every value differs.
Ramp(start, n) == [i \in 1..n |-> (start + i) % 256]

\* Result values. kind is "Ok", "Err" or "Panic".
Ok(pub, sec) == [kind |-> "Ok", pub_key |-> pub, secret |-> sec, msg |-> ""]
Err(msg) == [kind |-> "Err", pub_key |-> <<>>, secret |-> <<>>, msg |-> msg]
Panic(msg) == [kind |-> "Panic", pub_key |-> <<>>, secret |-> <<>>, msg |-> msg]

\* ------------------------------------------------------------------ engine
\* The engine behind ffi.rs (OpenSSL with oqs-provider), by algorithm name.
\* "X25519MLKEM768" lays hybrid values out post-quantum first; the older
\* provider's "x25519_mlkem768" lays them out classical first.
IsHybridAlg(alg) == alg \in {"X25519MLKEM768", "x25519_mlkem768"}
ClassicalFirst(alg) == alg = "x25519_mlkem768"

Layout(alg, classical, post_quantum) ==
    IF ~IsHybridAlg(alg) THEN post_quantum
    ELSE IF ClassicalFirst(alg) THEN classical \o post_quantum
    ELSE post_quantum \o classical

ClassicalPart(alg, bytes) ==
    IF ClassicalFirst(alg) THEN Take(bytes, X25519_LEN)
    ELSE Drop(bytes, Len(bytes) - X25519_LEN)

PostQuantumPart(alg, bytes) ==
    IF ~IsHybridAlg(alg) THEN bytes
    ELSE IF ClassicalFirst(alg) THEN Drop(bytes, X25519_LEN)
    ELSE Take(bytes, Len(bytes) - X25519_LEN)

\* X25519: public key of a scalar, and the agreement of two scalars.
X25519Pub(x) == Ramp(x, X25519_LEN)
PairId(a, b) ==
    IF a <= b THEN a * (MaxKeys + MaxRand + 1) + b
    ELSE b * (MaxKeys + MaxRand + 1) + a
X25519Agree(a, b) == Ramp(170 + PairId(a, b), SS_LEN)
\* The scalar behind a 32-byte public key; 0 for a point no party holds.
X25519Scalar(bytes) ==
    IF \E x \in Scalars : X25519Pub(x) = bytes
    THEN CHOOSE x \in Scalars : X25519Pub(x) = bytes
    ELSE 0

\* ML-KEM: public key, ciphertext and secret of (key, coin); the implicit
\* rejection secret of a ciphertext that does not decrypt.
MlKemPub(k) == Ramp(40 + k, PqPkLen)
MlKemCt(k, r) == Ramp(60 + k * (MaxRand + 1) + r, PqCtLen)
MlKemSs(k, r) == Ramp(80 + k * (MaxRand + 1) + r, SS_LEN)
MlKemReject(k) == Ramp(130 + k, SS_LEN)
MlKemDecaps(k, ct) ==
    IF \E r \in Rands : MlKemCt(k, r) = ct
    THEN MlKemSs(k, CHOOSE r \in Rands : MlKemCt(k, r) = ct)
    ELSE MlKemReject(k)

PubKeyLen(alg) == IF IsHybridAlg(alg) THEN PqPkLen + X25519_LEN ELSE PqPkLen
CiphertextLen(alg) == IF IsHybridAlg(alg) THEN PqCtLen + X25519_LEN ELSE PqCtLen

\* get_octet_string_param("encoded-pub-key")
EncodedPubKey(alg, k) == Layout(alg, X25519Pub(k), MlKemPub(k))
\* get_octet_string_param("hybrid_classical_pub")
HybridClassicalPub(k) == X25519Pub(k)
\* get_octet_string_param("hybrid_classical_priv"): 32 non-zero bytes
HybridClassicalPriv(k) == Ramp(215 + k, X25519_LEN)

\* PKey::from_encoded_public_key: the key the bytes encode, 0 when rejected.
FromEncodedPublicKey(bytes, alg) ==
    IF Len(bytes) # PubKeyLen(alg) THEN 0
    ELSE IF \E k \in Keys : EncodedPubKey(alg, k) = bytes
    THEN CHOOSE k \in Keys : EncodedPubKey(alg, k) = bytes
    ELSE 0

\* encapsulate_to_vec with coin r against key k: (ciphertext, secret).
EncapsulateToVec(alg, k, r) ==
    [out |-> Layout(alg, X25519Pub(EphemeralScalar(r)), MlKemCt(k, r)),
     secret |-> Layout(alg, X25519Agree(k, EphemeralScalar(r)), MlKemSs(k, r))]

\* decapsulate_to_vec: an error on a ciphertext of the wrong length.
DecapsulateToVec(alg, k, ct) ==
    IF Len(ct) # CiphertextLen(alg) THEN [ok |-> FALSE, secret |-> <<>>]
    ELSE [ok |-> TRUE,
          secret |-> Layout(alg,
              X25519Agree(k, X25519Scalar(ClassicalPart(alg, ct))),
              MlKemDecaps(k, PostQuantumPart(alg, ct)))]

\* PKey::public_key_from_raw_bytes(_, Id::X25519)
PublicKeyFromRawBytes(bytes) ==
    IF Len(bytes) # X25519_LEN THEN [ok |-> FALSE, point |-> 0]
    ELSE [ok |-> TRUE, point |-> X25519Scalar(bytes)]

\* Engine calls of complete_hybrid_component that can report an error.
EngineFaults ==
    {"none", "get_octet_string_param", "private_key_from_raw_bytes",
     "Deriver::new", "set_peer", "derive_to_vec"}

\* ------------------------------------------------------------------ kem.rs
KxGroup_new(named_group, algorithm_name) ==
    [named_group |-> named_group, algorithm_name |-> algorithm_name]

MLKEM768 == KxGroup_new("MLKEM768", "mlkem768")
X25519MLKEM768 == KxGroup_new("X25519MLKEM768", "X25519MLKEM768")

None == [some |-> FALSE, group |-> "", bytes |-> <<>>]
Some(group, bytes) == [some |-> TRUE, group |-> group, bytes |-> bytes]

\* KxGroup::start with the key pair k the engine generates; engine_ok is
\* whether every engine call of the closure succeeds.
KxGroup_start(self, k, engine_ok) ==
    IF ~engine_ok
    THEN [kind |-> "Err", msg |-> "OpenSSL keygen error"]
    ELSE [kind |-> "Ok", msg |-> "",
          session |->
            [type |-> "KeyExchange",
             priv_key |-> k,
             pub_key |-> EncodedPubKey(self.algorithm_name, k),
             mlkem |-> self,
             classical_pub_key |->
                IF self.named_group = "X25519MLKEM768"
                THEN Some("X25519", HybridClassicalPub(k))
                ELSE None]]

\* Mutant: the pair returned by encapsulate_to_vec taken in the wrong order.
KxGroup_start_and_complete_PairSwapped(self, peer_pub_key, r) ==
    LET key == FromEncodedPublicKey(peer_pub_key, self.algorithm_name)
        enc == EncapsulateToVec(self.algorithm_name, key, r)
    IN  IF key = 0 THEN Err("OpenSSL encapsulation error")
        ELSE Ok(enc.secret, enc.out)

\* KxGroup::start_and_complete with the coin r the engine draws.
KxGroup_start_and_complete(self, peer_pub_key, r) ==
    LET key == FromEncodedPublicKey(peer_pub_key, self.algorithm_name)
        enc == EncapsulateToVec(self.algorithm_name, key, r)
    IN  IF key = 0 THEN Err("OpenSSL encapsulation error")
        ELSE Ok(enc.out, enc.secret)

\* KeyExchange::complete
KeyExchange_complete(self, peer_pub_key) ==
    LET dec == DecapsulateToVec(self.mlkem.algorithm_name, self.priv_key,
                                peer_pub_key)
    IN  IF dec.ok THEN Ok(<<>>, dec.secret)
        ELSE Err("OpenSSL decapsulation error")

\* KeyExchange::pub_key
KeyExchange_pub_key(self) == self.pub_key

\* KeyExchange::hybrid_component
KeyExchange_hybrid_component(self) ==
    IF self.mlkem.named_group = "X25519MLKEM768"
    THEN Some("X25519", self.classical_pub_key.bytes)
    ELSE None

\* What complete_hybrid_component leaves behind: its result, whether the raw
\* private key bytes were extracted, and the contents of that buffer when the
\* call returns.
HybridOutcome(res, extracted, private_bytes) ==
    [res |-> res, extracted |-> extracted, private_bytes |-> private_bytes]

\* KeyExchange::complete_hybrid_component; fault names the engine call that
\* reports an error, if any.
KeyExchange_complete_hybrid_component(self, peer_pub_key, fault) ==
    LET peer == PublicKeyFromRawBytes(peer_pub_key)
        private_bytes == HybridClassicalPriv(self.priv_key)
        zeroized == Zeros(Len(private_bytes))
    IN  IF self.mlkem.named_group # "X25519MLKEM768"
        THEN HybridOutcome(
                Panic("Should only be called if hybrid_component returns Some(_)"),
                FALSE, <<>>)
        ELSE IF ~peer.ok
        THEN HybridOutcome(Err("OpenSSL error"), FALSE, <<>>)
        ELSE IF fault = "get_octet_string_param"
        THEN HybridOutcome(Err("OpenSSL error"), FALSE, <<>>)
        ELSE IF fault = "private_key_from_raw_bytes"
        \* the ? returns before private_bytes.zeroize()
        THEN HybridOutcome(Err("OpenSSL error"), TRUE, private_bytes)
        ELSE IF fault \in {"Deriver::new", "set_peer", "derive_to_vec"}
        THEN HybridOutcome(Err("OpenSSL error"), TRUE, zeroized)
        ELSE HybridOutcome(
                Ok(<<>>, X25519Agree(self.priv_key, peer.point)),
                TRUE, zeroized)

\* ----------------------------------------------------------------- swap.rs
\* ReversingKeyExchange { inner, classical_len }
ReversingKeyExchange(inner, classical_len) ==
    [inner |-> inner, classical_len |-> classical_len]

X25519MLKEM768_swap ==
    ReversingKeyExchange(KxGroup_new("X25519MLKEM768", "x25519_mlkem768"),
                         CLASSICAL_LEN)

\* usize subtraction: wraps in a release build. A debug build panics here;
\* the split_at_mut that follows panics on the wrapped value. The modulus
\* stands for 2^64, kept within 32-bit integers; every buffer is shorter.
USIZE_MODULUS == 2 ^ 30
UsizeSub(a, b) == (a - b) % USIZE_MODULUS

\* slice::split_at_mut / split_at panic when mid > len
SplitInRange(buf, mid) == mid <= Len(buf)

\* Mutant: the two segments concatenated in the order they were split.
MoveClassicalToEnd_NotMoved(pub_key, classical_len) ==
    Take(pub_key, classical_len) \o Drop(pub_key, classical_len)

\* let (classical, post_quantum) = pub_key.split_at_mut(classical_len);
\* [post_quantum, classical].concat()
MoveClassicalToEnd(pub_key, classical_len) ==
    Drop(pub_key, classical_len) \o Take(pub_key, classical_len)

\* Mutant: the peer bytes split at classical_len, as the own key is.
MoveClassicalToStart_SplitAtClassicalLen(peer_pub_key, classical_len) ==
    Drop(peer_pub_key, classical_len) \o Take(peer_pub_key, classical_len)

\* let (post_quantum, classical) =
\*     peer_pub_key.split_at_mut(key_len - classical_len);
\* [classical, post_quantum].concat()
MoveClassicalToStart(peer_pub_key, classical_len) ==
    LET mid == UsizeSub(Len(peer_pub_key), classical_len)
    IN  Drop(peer_pub_key, mid) \o Take(peer_pub_key, mid)

\* Mutant: the secret handed on as the engine returned it.
SwapSecretHalves_NotSwapped(secret) == secret

\* let (classical, post_quantum) = secret.split_at(secret.len() / 2);
\* [post_quantum, classical].concat()
SwapSecretHalves(secret) ==
    LET mid == Len(secret) \div 2
    IN  Drop(secret, mid) \o Take(secret, mid)

\* Mutant: the session keeps the engine's public key as exported.
ReversingKeyExchange_start_KeyAsExported(self, k, engine_ok) ==
    LET inner == KxGroup_start(self.inner, k, engine_ok)
    IN  IF inner.kind # "Ok" THEN inner
        ELSE [kind |-> "Ok", msg |-> "",
              session |->
                [type |-> "ReversingKeyExchangeActive",
                 inner |-> inner.session,
                 pub_key |-> inner.session.pub_key,
                 kx_group |-> self]]

\* ReversingKeyExchange::start
ReversingKeyExchange_start(self, k, engine_ok) ==
    LET inner == KxGroup_start(self.inner, k, engine_ok)
    IN  IF inner.kind # "Ok" THEN inner
        ELSE IF ~SplitInRange(inner.session.pub_key, self.classical_len)
        THEN [kind |-> "Panic", msg |-> "mid > len"]
        ELSE [kind |-> "Ok", msg |-> "",
              session |->
                [type |-> "ReversingKeyExchangeActive",
                 inner |-> inner.session,
                 pub_key |-> MoveClassicalToEnd(inner.session.pub_key,
                                                self.classical_len),
                 kx_group |-> self]]

\* ReversingKeyExchange::start_and_complete
ReversingKeyExchange_start_and_complete(self, peer_pub_key, r) ==
    LET key_len == Len(peer_pub_key)
        mid == UsizeSub(key_len, self.classical_len)
        swapped == MoveClassicalToStart(peer_pub_key, self.classical_len)
        completed == KxGroup_start_and_complete(self.inner, swapped, r)
    IN  IF ~SplitInRange(peer_pub_key, mid) THEN Panic("mid > len")
        ELSE IF completed.kind # "Ok" THEN completed
        ELSE IF ~SplitInRange(completed.pub_key, self.classical_len)
        THEN Panic("mid > len")
        ELSE Ok(MoveClassicalToEnd(completed.pub_key, self.classical_len),
                SwapSecretHalves(completed.secret))

\* ReversingKeyExchangeActive::complete
ReversingKeyExchangeActive_complete(self, peer_pub_key) ==
    LET key_len == Len(peer_pub_key)
        mid == UsizeSub(key_len, self.kx_group.classical_len)
        swapped == MoveClassicalToStart(peer_pub_key,
                                        self.kx_group.classical_len)
        secret == KeyExchange_complete(self.inner, swapped)
    IN  IF ~SplitInRange(peer_pub_key, mid) THEN Panic("mid > len")
        ELSE IF secret.kind # "Ok" THEN secret
        ELSE Ok(<<>>, SwapSecretHalves(secret.secret))

\* ReversingKeyExchangeActive::pub_key
ReversingKeyExchangeActive_pub_key(self) == self.pub_key

\* The impl block overrides neither hybrid method: the trait's defaults run.
ReversingKeyExchangeActive_hybrid_component(self) == None

ReversingKeyExchangeActive_complete_hybrid_component(self, peer_pub_key, fault) ==
    HybridOutcome(Panic("only called if hybrid_component() implemented"),
                  FALSE, <<>>)

\* ------------------------------------------------------------------- state
\* kem.rs and swap.rs hold no state outside a session, so a behaviour follows
\* one handshake: one session of the group under test, one session of a
\* reference peer, and the responder-side calls each side makes.
VARIABLES
    cfg,            \* the group in use and the layout the build selected
    ours,           \* the session started from the group under test
    theirs,         \* the session of the reference peer
    ourCompleted,   \* results of start_and_complete on the group under test
    theirCompleted, \* results of the wire-order peer's start_and_complete
    xf              \* the layout transforms applied to a free-standing buffer

vars == <<cfg, ours, theirs, ourCompleted, theirCompleted, xf>>

\* build.rs selects the shim for the hybrid group when the engine is legacy;
\* lib.rs exports MLKEM768 and X25519MLKEM768.
Group(c) ==
    IF c.group = "MLKEM768" THEN [type |-> "KxGroup", obj |-> MLKEM768]
    ELSE IF c.legacy
    THEN [type |-> "ReversingKeyExchange", obj |-> X25519MLKEM768_swap]
    ELSE [type |-> "KxGroup", obj |-> X25519MLKEM768]

\* dyn SupportedKxGroup
Group_start(g, k, engine_ok) ==
    IF g.type = "ReversingKeyExchange"
    THEN ReversingKeyExchange_start(g.obj, k, engine_ok)
    ELSE KxGroup_start(g.obj, k, engine_ok)

Group_start_and_complete(g, peer_pub_key, r) ==
    IF g.type = "ReversingKeyExchange"
    THEN ReversingKeyExchange_start_and_complete(g.obj, peer_pub_key, r)
    ELSE KxGroup_start_and_complete(g.obj, peer_pub_key, r)

\* dyn ActiveKeyExchange
Session_complete(s, peer_pub_key) ==
    IF s.type = "ReversingKeyExchangeActive"
    THEN ReversingKeyExchangeActive_complete(s, peer_pub_key)
    ELSE KeyExchange_complete(s, peer_pub_key)

Session_pub_key(s) ==
    IF s.type = "ReversingKeyExchangeActive"
    THEN ReversingKeyExchangeActive_pub_key(s)
    ELSE KeyExchange_pub_key(s)

Session_hybrid_component(s) ==
    IF s.type = "ReversingKeyExchangeActive"
    THEN ReversingKeyExchangeActive_hybrid_component(s)
    ELSE KeyExchange_hybrid_component(s)

Session_complete_hybrid_component(s, peer_pub_key, fault) ==
    IF s.type = "ReversingKeyExchangeActive"
    THEN ReversingKeyExchangeActive_complete_hybrid_component(s, peer_pub_key, fault)
    ELSE KeyExchange_complete_hybrid_component(s, peer_pub_key, fault)

\* The key pair and the exported key the engine gave the session.
Session_priv_key(s) ==
    IF s.type = "ReversingKeyExchangeActive" THEN s.inner.priv_key ELSE s.priv_key
Session_engine_pub_key(s) ==
    IF s.type = "ReversingKeyExchangeActive" THEN s.inner.pub_key ELSE s.pub_key

\* Mutant: the completion call borrows the session (&self).
MoveOut_Borrowed(h) == h

\* self: Box<Self>: a completion call takes the session from its owner.
MoveOut(h) == [h EXCEPT !.alive = FALSE]

\* The owner's handle: no session yet, a start() that failed, or a session
\* with what its calls have returned so far.
NoSession ==
    [obj |-> [type |-> "none"], start |-> "", alive |-> FALSE, completions |-> 0,
     op |-> "", input |-> <<>>,
     outcome |-> HybridOutcome(Ok(<<>>, <<>>), FALSE, <<>>), hybrids |-> {}]
FailedStart(kind) == [NoSession EXCEPT !.start = kind]
Held(s) == [NoSession EXCEPT !.obj = s, !.start = "Ok", !.alive = TRUE]

\* The reference peers of the tests: a wire-order KEM group and X25519.
WireAlg(c) == IF c.group = "MLKEM768" THEN "mlkem768" ELSE "X25519MLKEM768"

NoPeer ==
    [kind |-> "", key |-> 0, pub_key |-> <<>>, alive |-> FALSE,
     input |-> <<>>, outcome |-> Ok(<<>>, <<>>)]
Peer(kind, k, pub_key) ==
    [NoPeer EXCEPT !.kind = kind, !.key = k, !.pub_key = pub_key, !.alive = TRUE]

\* Peer bytes as a handshake can deliver them: intact, empty (shorter than
\* the classical length), cut by one byte, grown by one byte.
Variants(b) ==
    {b, <<>>, Take(b, Len(b) - (IF Len(b) = 0 THEN 0 ELSE 1)), b \o <<0>>}

Init ==
    /\ cfg \in [group : {"MLKEM768", "X25519MLKEM768"}, legacy : BOOLEAN]
    /\ ours = NoSession
    /\ theirs = NoPeer
    /\ ourCompleted = {}
    /\ theirCompleted = {}
    /\ xf = [classical_len |-> 0, orig |-> <<>>, buf |-> <<>>, ops |-> <<>>,
             panicked |-> FALSE]

\* ours.start()
OursStart(k, engine_ok) ==
    LET res == Group_start(Group(cfg), k, engine_ok)
    IN  /\ ours = NoSession
        /\ ours' = IF res.kind = "Ok" THEN Held(res.session)
                   ELSE FailedStart(res.kind)
        /\ UNCHANGED <<cfg, theirs, ourCompleted, theirCompleted, xf>>

\* our_kx.hybrid_component()
OursHybridComponent ==
    /\ ours.alive
    /\ ours' = [ours EXCEPT
                  !.hybrids = @ \cup {Session_hybrid_component(ours.obj)}]
    /\ UNCHANGED <<cfg, theirs, ourCompleted, theirCompleted, xf>>

\* our_kx.complete(peer bytes)
OursComplete(bytes) ==
    LET res == Session_complete(ours.obj, bytes)
    IN  /\ ours.alive
        /\ ours' = [MoveOut(ours) EXCEPT
                       !.completions = @ + 1, !.op = "complete",
                       !.input = bytes,
                       !.outcome = HybridOutcome(res, FALSE, <<>>)]
        /\ UNCHANGED <<cfg, theirs, ourCompleted, theirCompleted, xf>>

\* our_kx.complete_hybrid_component(peer bytes)
OursCompleteHybridComponent(bytes, fault) ==
    LET out == Session_complete_hybrid_component(ours.obj, bytes, fault)
    IN  /\ ours.alive
        /\ ours' = [MoveOut(ours) EXCEPT
                       !.completions = @ + 1,
                       !.op = "complete_hybrid_component",
                       !.input = bytes, !.outcome = out]
        /\ UNCHANGED <<cfg, theirs, ourCompleted, theirCompleted, xf>>

\* ours.start_and_complete(peer bytes)
OursStartAndComplete(bytes, r) ==
    LET g == Group(cfg)
        res == Group_start_and_complete(g, bytes, r)
        inner == IF g.type = "ReversingKeyExchange"
                 THEN KxGroup_start_and_complete(
                        g.obj.inner,
                        MoveClassicalToStart(bytes, g.obj.classical_len), r)
                 ELSE res
    IN  /\ Cardinality(ourCompleted) < MaxCalls
        /\ ourCompleted' = ourCompleted \cup
              {[input |-> bytes, res |-> res,
                engine_out |-> IF res.kind = "Ok" THEN inner.pub_key ELSE <<>>]}
        /\ UNCHANGED <<cfg, ours, theirs, theirCompleted, xf>>

\* theirs.start(): the wire-order KEM peer, or the X25519 peer of the hybrid
TheirsStart(kind, k) ==
    /\ theirs = NoPeer
    /\ kind = "x25519" => cfg.group = "X25519MLKEM768"
    /\ theirs' = Peer(kind, k, IF kind = "x25519" THEN X25519Pub(k)
                               ELSE EncodedPubKey(WireAlg(cfg), k))
    /\ UNCHANGED <<cfg, ours, ourCompleted, theirCompleted, xf>>

\* theirs.start_and_complete(our_kx.pub_key())
TheirsStartAndComplete(r) ==
    LET input == Session_pub_key(ours.obj)
        key == FromEncodedPublicKey(input, WireAlg(cfg))
        enc == EncapsulateToVec(WireAlg(cfg), key, r)
    IN  /\ ours.alive
        /\ Cardinality(theirCompleted) < MaxCalls
        /\ theirCompleted' = theirCompleted \cup
              {[input |-> input,
                res |-> IF key = 0 THEN Err("peer rejects the public key")
                        ELSE Ok(enc.out, enc.secret)]}
        /\ UNCHANGED <<cfg, ours, theirs, ourCompleted, xf>>

\* their_kx.complete(bytes)
TheirsComplete(bytes) ==
    LET dec == DecapsulateToVec(WireAlg(cfg), theirs.key, bytes)
        pt == PublicKeyFromRawBytes(bytes)
        res == IF theirs.kind = "x25519"
               THEN IF pt.ok THEN Ok(<<>>, X25519Agree(theirs.key, pt.point))
                    ELSE Err("peer rejects the public key")
               ELSE IF dec.ok THEN Ok(<<>>, dec.secret)
                    ELSE Err("peer rejects the ciphertext")
    IN  /\ theirs.alive
        /\ theirs' = [theirs EXCEPT !.alive = FALSE, !.input = bytes,
                                    !.outcome = res]
        /\ UNCHANGED <<cfg, ours, ourCompleted, theirCompleted, xf>>

\* Bytes that reach each call.
PeerPubKeys == IF theirs = NoPeer THEN {} ELSE {theirs.pub_key}
PeerCiphertexts ==
    {c.res.pub_key : c \in {d \in theirCompleted : d.res.kind = "Ok"}}
OurCiphertexts ==
    {c.res.pub_key : c \in {d \in ourCompleted : d.res.kind = "Ok"}}
OurHybridKeys == {h.bytes : h \in {x \in ours.hybrids : x.some}}

Next ==
    \/ \E k \in Keys, engine_ok \in BOOLEAN : OursStart(k, engine_ok)
    \/ OursHybridComponent
    \/ \E b \in UNION {Variants(c) : c \in PeerCiphertexts \cup {<<>>}} :
          OursComplete(b)
    \/ \E fault \in EngineFaults :
          \E b \in UNION {Variants(c) : c \in PeerPubKeys \cup {<<>>}} :
             OursCompleteHybridComponent(b, fault)
    \/ \E r \in Rands :
          \E b \in UNION {Variants(c) : c \in PeerPubKeys \cup {<<>>}} :
             OursStartAndComplete(b, r)
    \/ \E kind \in {"kem", "x25519"}, k \in Keys : TheirsStart(kind, k)
    \/ \E r \in Rands : TheirsStartAndComplete(r)
    \/ \E b \in OurCiphertexts \cup OurHybridKeys : TheirsComplete(b)

Spec == Init /\ [][Next]_vars

\* ------------------------------------------------- the transforms in isolation
\* The shim's three byte transforms applied to a free-standing buffer, with
\* the classical_len of the ReversingKeyExchange they belong to.
BufBytes == {1, 2, 255}
Buffers == UNION {[1..n -> BufBytes] : n \in 0..MaxBufLen}
SyntheticKey(n) == Fill(1, CLASSICAL_LEN) \o Fill(2, n)

InitXf ==
    /\ cfg = [group |-> "X25519MLKEM768", legacy |-> TRUE]
    /\ ours = NoSession
    /\ theirs = NoPeer
    /\ ourCompleted = {}
    /\ theirCompleted = {}
    /\ \/ \E cl \in 0..MaxClassicalLen, b \in Buffers :
             xf = [classical_len |-> cl, orig |-> b, buf |-> b, ops |-> <<>>,
                   panicked |-> FALSE]
       \/ \E n \in 0..MaxN :
             xf = [classical_len |-> X25519MLKEM768_swap.classical_len,
                   orig |-> SyntheticKey(n), buf |-> SyntheticKey(n),
                   ops |-> <<>>, panicked |-> FALSE]

XfStep(op, in_range, out) ==
    /\ ~xf.panicked
    /\ Len(xf.ops) < 2
    /\ xf' = IF in_range
             THEN [xf EXCEPT !.buf = out, !.ops = Append(@, op)]
             ELSE [xf EXCEPT !.panicked = TRUE, !.ops = Append(@, op)]
    /\ UNCHANGED <<cfg, ours, theirs, ourCompleted, theirCompleted>>

\* the reorder of start() and of the ciphertext in start_and_complete()
XfForward ==
    XfStep("forward", SplitInRange(xf.buf, xf.classical_len),
           MoveClassicalToEnd(xf.buf, xf.classical_len))

\* the reorder of the peer bytes in start_and_complete() and complete()
XfReverse ==
    XfStep("reverse",
           SplitInRange(xf.buf, UsizeSub(Len(xf.buf), xf.classical_len)),
           MoveClassicalToStart(xf.buf, xf.classical_len))

\* the swap of the secret halves
XfSwapSecret ==
    XfStep("swap", TRUE, SwapSecretHalves(xf.buf))

NextXf == XfForward \/ XfReverse \/ XfSwapSecret

SpecXf == InitXf /\ [][NextXf]_vars

\* ------------------------------------------------------------------ claims
Hybrid == cfg.group = "X25519MLKEM768"
Legacy == Hybrid /\ cfg.legacy

\* The session's complete() on the ciphertext a wire-order peer returned for
\* its public key succeeds with the peer's secret, and the peer accepted that
\* key.
InitiatorRoundTrip ==
    \A tc \in theirCompleted :
       /\ tc.res.kind = "Ok"
       /\ (ours.op = "complete" /\ ours.input = tc.res.pub_key)
          => /\ ours.outcome.res.kind = "Ok"
             /\ ours.outcome.res.secret = tc.res.secret

\* start_and_complete() on a wire-order peer's public key succeeds, and the
\* peer's complete() on the returned ciphertext yields the same secret.
ResponderRoundTrip ==
    \A oc \in ourCompleted :
        (theirs.kind = "kem" /\ oc.input = theirs.pub_key)
        => /\ oc.res.kind = "Ok"
           /\ (~theirs.alive /\ theirs.input = oc.res.pub_key)
              => /\ theirs.outcome.kind = "Ok"
                 /\ theirs.outcome.secret = oc.res.secret

BothRolesDone ==
    /\ \E tc \in theirCompleted :
          /\ ours.op = "complete"
          /\ ours.input = tc.res.pub_key
          /\ ours.outcome.res.kind = "Ok"
          /\ ours.outcome.res.secret = tc.res.secret
          /\ Len(tc.res.secret) > 0
    /\ \E oc \in ourCompleted :
          /\ oc.res.kind = "Ok"
          /\ theirs.kind = "kem"
          /\ ~theirs.alive
          /\ theirs.input = oc.res.pub_key
          /\ theirs.outcome.secret = oc.res.secret

\* C1: for the ML-KEM-768 group, a session's complete() on the ciphertext the
\* peer's start_and_complete(pub_key()) returned yields the peer's secret byte
\* for byte, and so does the exchange with the two roles swapped.
C1_MlKemRoundTrip ==
    cfg.group = "MLKEM768" => (InitiatorRoundTrip /\ ResponderRoundTrip)

C1_Witness == cfg.group = "MLKEM768" /\ BothRolesDone

\* C2: for the hybrid group, under the current layout (plain KxGroup) and
\* under the legacy layout (the shim over a classical-first engine), both
\* directions of the exchange with a wire-order peer end in equal secrets.
C2_HybridRoundTrip ==
    Hybrid => (InitiatorRoundTrip /\ ResponderRoundTrip)

C2_Witness == Legacy /\ BothRolesDone

\* C3: every session of the hybrid group, in either layout, answers
\* hybrid_component() with Some((X25519, classical public key)), and, the
\* engine reporting no error, complete_hybrid_component() on a reference
\* X25519 peer's public key returns the secret that peer derives from the
\* bytes hybrid_component() returned.
C3_ClassicalRoundTrip ==
    Hybrid =>
       /\ \A h \in ours.hybrids :
             /\ h.some
             /\ h.group = "X25519"
             /\ Len(h.bytes) = X25519_LEN
       /\ ( /\ ours.op = "complete_hybrid_component"
            /\ theirs.kind = "x25519"
            /\ ours.input = theirs.pub_key
            /\ ours.outcome.res.kind # "Err" )
          => /\ ours.outcome.res.kind = "Ok"
             /\ ( /\ ~theirs.alive
                  /\ \E h \in ours.hybrids : theirs.input = h.bytes )
                => /\ theirs.outcome.kind = "Ok"
                   /\ theirs.outcome.secret = ours.outcome.res.secret

\* C4: start_and_complete() answers a peer public key that is not well formed
\* with an Error: no panic, no CompletedKeyExchange.
C4_ResponderErrors ==
    \A oc \in ourCompleted :
        FromEncodedPublicKey(oc.input, WireAlg(cfg)) = 0 => oc.res.kind = "Err"

\* C5: complete() answers a ciphertext of the wrong length with an Error: no
\* panic, no shared secret.
C5_DecapsulationErrors ==
    (ours.op = "complete" /\ Len(ours.input) # CiphertextLen(WireAlg(cfg)))
    => ours.outcome.res.kind = "Err"

\* C6: whenever complete_hybrid_component() extracted the raw classical
\* private key, that buffer is all zero when the call returns.
C6_Zeroized ==
    (ours.op = "complete_hybrid_component" /\ ours.outcome.extracted)
    => ours.outcome.private_bytes = Zeros(Len(ours.outcome.private_bytes))

\* C7: a session is taken by its one completion call: it completes at most
\* once, and once it is gone nothing about it changes again (no second
\* completion, no pub_key(), no hybrid_component()).
C7_SingleUse ==
    [][/\ ours'.completions <= 1
       /\ ours'.alive => ours'.completions = 0
       /\ ours.completions = 1 =>
             /\ ours' = ours
             /\ theirCompleted' = theirCompleted]_vars

C7_Witness ==
    /\ ~ours.alive
    /\ ours.completions = 1
    /\ ours.outcome.res.kind = "Ok"
    /\ theirCompleted # {}

\* C8 as amended: forward reorder then reverse reorder returns any buffer at
\* least classical_len long; the secret swap applied twice returns any buffer
\* of even length.
C8_Involution ==
    /\ (xf.ops = <<"forward", "reverse">> /\ Len(xf.orig) >= xf.classical_len)
       => (~xf.panicked /\ xf.buf = xf.orig)
    /\ (xf.ops = <<"swap", "swap">> /\ Len(xf.orig) % 2 = 0)
       => xf.buf = xf.orig

C8_Witness ==
    /\ xf.ops = <<"forward", "reverse">>
    /\ xf.classical_len = 2
    /\ xf.orig = <<1, 2, 255>>
    /\ xf.buf = xf.orig

\* C8 as stated: the secret swap applied twice returns every buffer.
C8_Original ==
    /\ (xf.ops = <<"forward", "reverse">> /\ Len(xf.orig) >= xf.classical_len)
       => (~xf.panicked /\ xf.buf = xf.orig)
    /\ xf.ops = <<"swap", "swap">> => xf.buf = xf.orig

IsSynthetic ==
    /\ xf.classical_len = CLASSICAL_LEN
    /\ Len(xf.orig) >= CLASSICAL_LEN
    /\ xf.orig = SyntheticKey(Len(xf.orig) - CLASSICAL_LEN)
SyntheticN == Len(xf.orig) - CLASSICAL_LEN

\* C9 as amended: start()'s transform maps [1]*32 ++ [2]*N to
\* [2]*N ++ [1]*32; the reverse transform takes that back to the original; the
\* same transform a second time does so exactly when N is 0 or 32.
C9_FixedVector ==
    IsSynthetic =>
       /\ xf.ops = <<"forward">>
          => xf.buf = Fill(2, SyntheticN) \o Fill(1, CLASSICAL_LEN)
       /\ xf.ops = <<"forward", "reverse">> => xf.buf = xf.orig
       /\ xf.ops = <<"forward", "forward">>
          => (xf.buf = xf.orig <=> SyntheticN \in {0, CLASSICAL_LEN})

C9_Witness ==
    /\ IsSynthetic
    /\ SyntheticN = 3
    /\ xf.ops = <<"forward", "reverse">>
    /\ xf.buf = xf.orig

\* C9 as stated: the same transform a second time returns the original.
C9_Original ==
    IsSynthetic =>
       /\ xf.ops = <<"forward">>
          => xf.buf = Fill(2, SyntheticN) \o Fill(1, CLASSICAL_LEN)
       /\ xf.ops = <<"forward", "forward">> => xf.buf = xf.orig

\* [post_quantum, classical] of the engine's [classical, post_quantum]
WireOrderOf(engine_bytes, wire_bytes) ==
    /\ Len(wire_bytes) = Len(engine_bytes)
    /\ Len(engine_bytes) >= CLASSICAL_LEN
    /\ \A n \in 1..Len(engine_bytes) :
          wire_bytes[n] =
             engine_bytes[((n - 1 + CLASSICAL_LEN) % Len(engine_bytes)) + 1]

\* C10: under the legacy layout the session's pub_key() and the ciphertext
\* of start_and_complete() are the engine's bytes with the first 32 moved to
\* the end, of the same length, and pub_key() never returns anything else.
C10_WireOrder ==
    Legacy =>
       /\ Cardinality({tc.input : tc \in theirCompleted}) <= 1
       /\ \A tc \in theirCompleted :
             /\ WireOrderOf(Session_engine_pub_key(ours.obj), tc.input)
             /\ tc.input = MlKemPub(Session_priv_key(ours.obj))
                             \o X25519Pub(Session_priv_key(ours.obj))
       /\ \A oc \in ourCompleted :
             oc.res.kind = "Ok" =>
                /\ WireOrderOf(oc.engine_out, oc.res.pub_key)
                /\ Take(oc.engine_out, CLASSICAL_LEN)
                     = Drop(oc.res.pub_key, Len(oc.res.pub_key) - CLASSICAL_LEN)

C10_Witness ==
    /\ Legacy
    /\ theirCompleted # {}
    /\ \E oc \in ourCompleted : oc.res.kind = "Ok"

====
